---- MODULE Spec2Model ----
(***************************************************************************)
(* Expiring authentication keys of the tracker (src/tracker/auth.rs):      *)
(* generate / verify of ExpiringKey, the Key identity with its FromStr,    *)
(* Display and serde derives, and the Clock (crate::protocol::clock) the   *)
(* two functions read.                                                     *)
(*                                                                         *)
(* Instants and durations are DurationSinceUnixEpoch values, modelled as   *)
(* whole ticks 0..MaxInstant, MaxInstant standing for Duration::MAX.       *)
(* Strings are sequences of characters; a character is a one-element       *)
(* token, "U+00E9" naming the two-byte character e-acute.                  *)
(***************************************************************************)
EXTENDS Integers, Sequences, FiniteSets

VARIABLES
    mode,     \* Clock: "system" or "stopped"
    stored,   \* Clock: the stopped-mode instant
    wall,     \* environment: the wall-clock reading at its last read
    keys,     \* the ExpiringKey values the caller holds, in generation order
    hist,     \* per key, the arguments of its generate call (observation only)
    last      \* the last call: its arguments and what it returned

vars == <<mode, stored, wall, keys, hist, last>>

----------------------------------------------------------------------------
(* Bounds of the model *)

\* Stand-in for Duration::MAX, the largest representable instant.
MaxInstant == 3
\* The wall clock is read at instants 0..MaxWall.
MaxWall == 2
\* Lifetimes and advance durations are drawn from 0..MaxDuration.
MaxDuration == 1
\* The caller keeps at most MaxKeys of the keys it generates.
MaxKeys == 1

----------------------------------------------------------------------------
(* Strings *)

\* crate::protocol::common::AUTH_KEY_LENGTH, imported at auth.rs:16; the
\* 32-byte key_string of tests::auth_key_from_string parses, so it is 32.
AUTH_KEY_LENGTH == 32

\* rand::distributions::Alphanumeric samples a-z, A-Z, 0-9; three of them.
Alphanumeric == {"a", "Z", "7"}

\* Characters an external string may hold: alphanumeric, ASCII punctuation,
\* and a character whose UTF-8 encoding is two bytes.
Chars == Alphanumeric \cup {"-", "U+00E9"}

\* The number of bytes of a character's UTF-8 encoding.
Utf8Len(c) == IF c = "U+00E9" THEN 2 ELSE 1

RECURSIVE BytesUpTo(_, _)
\* The bytes of the first n characters of s.
BytesUpTo(s, n) == IF n = 0 THEN 0 ELSE Utf8Len(s[n]) + BytesUpTo(s, n - 1)

\* str::len(): the length of a string in bytes, not in characters.
ByteLen(s) == BytesUpTo(s, Len(s))

\* n copies of the character c.
Rep(c, n) == [i \in 1..n |-> c]

\* key_string of tests::auth_key_from_string.
key_string ==
    <<"Y","Z","S","l","4","l","M","Z","u","p","R","u","O","p","S","R",
      "C","3","k","r","I","K","R","5","B","P","B","1","4","n","r","J">>

\* Lengths (in characters) of the externally supplied strings.
InputLens == {0, AUTH_KEY_LENGTH \div 2, AUTH_KEY_LENGTH - 1, AUTH_KEY_LENGTH,
              AUTH_KEY_LENGTH + 1}

\* The externally supplied strings: parse candidates and stored values.
Inputs ==
    {Rep(c, n) : c \in {"a", "-", "U+00E9"}, n \in InputLens}
        \cup {key_string, Rep("a", AUTH_KEY_LENGTH - 2) \o <<"U+00E9">>,
              Rep("a", AUTH_KEY_LENGTH - 1) \o <<"U+00E9">>}

----------------------------------------------------------------------------
(* Key *)

\* No Key value.
NoKey == <<>>

\* pub struct Key(String): a tuple struct of one private field.
MkKey(s) == <<s>>

from_strShort(s) ==
    IF ByteLen(s) > AUTH_KEY_LENGTH
    THEN [ok |-> FALSE, err |-> "ParseKeyError", key |-> NoKey]
    ELSE [ok |-> TRUE, err |-> "", key |-> MkKey(s)]

\* impl FromStr for Key.
from_str(s) ==
    IF ByteLen(s) # AUTH_KEY_LENGTH
    THEN [ok |-> FALSE, err |-> "ParseKeyError", key |-> NoKey]
    ELSE [ok |-> TRUE, err |-> "", key |-> MkKey(s)]

to_stringDebug(k) == <<"K", "e", "y", "(">> \o k[1] \o <<")">>

\* #[derive(Display)] on the newtype: writes the inner String.
to_string(k) == k[1]

\* #[derive(Deserialize)] on the newtype: the stored string becomes the
\* field as it is, FromStr is not involved.
deserialize(s) == MkKey(s)

\* thread_rng().sample_iter(&Alphanumeric).take(n).map(char::from).collect()
\* on a stream that repeats `pattern`.
sample_iter_take(pattern, n) ==
    [i \in 1..n |-> pattern[((i - 1) % Len(pattern)) + 1]]

\* The streams the random source may yield: two of them.
Patterns == {<<"a">>, <<"Z", "7">>}

----------------------------------------------------------------------------
(* Clock (crate::protocol::clock::Current) *)

\* Duration::checked_add: the sum, or Overflow past the largest instant.
checked_add(t, d) ==
    IF t + d > MaxInstant
    THEN [ok |-> FALSE, err |-> "Overflow", t |-> 0]
    ELSE [ok |-> TRUE, err |-> "", t |-> t + d]

\* Current::now(): the stored instant in stopped mode; in system mode the
\* wall clock, which has not gone back since it was last read.
Readings == IF mode = "stopped" THEN {stored} ELSE wall..MaxWall

\* The wall clock after a call that read `now` from the Clock.
WallAfter(now) == IF mode = "stopped" THEN wall ELSE now

\* Current::add(&duration): now() + duration, nothing stored.
add(now, duration) == checked_add(now, duration)

----------------------------------------------------------------------------
(* ExpiringKey *)

NoExpiringKey == [key |-> NoKey, valid_until |-> 0]

generateSaturating(pattern, now, lifetime) ==
    LET random_id == sample_iter_take(pattern, AUTH_KEY_LENGTH)
        parsed == from_str(random_id)
        until == add(now, lifetime)
    IN  IF ~parsed.ok
        THEN [res |-> "Panic", err |-> parsed.err, ek |-> NoExpiringKey]
        ELSE [res |-> "Ok", err |-> "",
              ek |-> [key |-> parsed.key,
                      valid_until |-> IF until.ok THEN until.t ELSE MaxInstant]]

generateFromEpoch(pattern, now, lifetime) ==
    LET random_id == sample_iter_take(pattern, AUTH_KEY_LENGTH)
        parsed == from_str(random_id)
        until == add(0, lifetime)
    IN  IF ~parsed.ok
        THEN [res |-> "Panic", err |-> parsed.err, ek |-> NoExpiringKey]
        ELSE IF ~until.ok
        THEN [res |-> "Panic", err |-> until.err, ek |-> NoExpiringKey]
        ELSE [res |-> "Ok", err |-> "",
              ek |-> [key |-> parsed.key, valid_until |-> until.t]]

\* pub fn generate(lifetime): the key it returns, or the panic of one of its
\* two unwrap() calls (the key field is evaluated first).
generate(pattern, now, lifetime) ==
    LET random_id == sample_iter_take(pattern, AUTH_KEY_LENGTH)
        parsed == from_str(random_id)
        until == add(now, lifetime)
    IN  IF ~parsed.ok
        THEN [res |-> "Panic", err |-> parsed.err, ek |-> NoExpiringKey]
        ELSE IF ~until.ok
        THEN [res |-> "Panic", err |-> until.err, ek |-> NoExpiringKey]
        ELSE [res |-> "Ok", err |-> "",
              ek |-> [key |-> parsed.key, valid_until |-> until.t]]

verifyExclusive(auth_key, current_time) ==
    IF auth_key.valid_until <= current_time
    THEN [res |-> "Err", err |-> "KeyExpired"]
    ELSE [res |-> "Ok", err |-> ""]

verifyReversed(auth_key, current_time) ==
    IF auth_key.valid_until > current_time
    THEN [res |-> "Err", err |-> "KeyExpired"]
    ELSE [res |-> "Ok", err |-> ""]

\* pub fn verify(auth_key): the comparison of valid_until with Current::now().
verify(auth_key, current_time) ==
    IF auth_key.valid_until < current_time
    THEN [res |-> "Err", err |-> "KeyExpired"]
    ELSE [res |-> "Ok", err |-> ""]

\* Stand-in for i64::MAX seconds, half of the u64 range of Duration.
I64_MAX == (MaxInstant - 1) \div 2

----------------------------------------------------------------------------
(* State *)

\* The record of a call; every call fills the fields it has.
Call == [op |-> "none", idx |-> 0, s |-> <<>>, d |-> 0, now |-> 0,
         res |-> "", err |-> "", key |-> NoKey, t |-> 0, fresh |-> FALSE,
         again |-> FALSE, from |-> "", out |-> <<>>, key2 |-> NoKey]

\* The process starts in system mode and holds no key.
Init ==
    /\ mode = "system"
    /\ stored = 0
    /\ wall = 0
    /\ keys = <<>>
    /\ hist = <<>>
    /\ last = Call

\* A panic unwinds the calling thread: nothing runs after it.
Running == last.res # "Panic"

----------------------------------------------------------------------------
(* Operations *)

\* What a successful local_add or local_set_to_system_time_now means for the
\* observation of each key: the total advanced, and whether a set intervened.
Advanced(by) ==
    [i \in 1..Len(hist) |->
        IF hist[i].stopped THEN [hist[i] EXCEPT !.adv = @ + by] ELSE hist[i]]

Reset == [i \in 1..Len(hist) |-> [hist[i] EXCEPT !.stopped = FALSE, !.adv = 0]]

\* let auth_key = auth::generate(lifetime); the caller keeps the key while
\* it has room for it, and drops it otherwise.
Generate(lifetime, pattern) ==
    /\ Running
    /\ \E now \in Readings :
       \E g \in {generate(pattern, now, lifetime)} :
       \E kept \in {g.res = "Ok" /\ Len(keys) < MaxKeys} :
         /\ wall' = WallAfter(now)
         /\ keys' = IF kept THEN Append(keys, g.ek) ELSE keys
         /\ hist' = IF kept
                    THEN Append(hist, [lifetime |-> lifetime, t0 |-> now,
                                       stopped |-> mode = "stopped", adv |-> 0])
                    ELSE hist
         /\ last' = [Call EXCEPT !.op = "generate", !.d = lifetime,
                        !.now = now, !.res = g.res, !.err = g.err,
                        !.idx = IF kept THEN Len(keys) + 1 ELSE 0,
                        !.key = g.ek.key, !.t = g.ek.valid_until]
    /\ UNCHANGED <<mode, stored>>

VerifyRenewing(i) ==
    /\ Running
    /\ i \in 1..Len(keys)
    /\ \E current_time \in Readings :
       \E v \in {verify(keys[i], current_time)} :
             /\ wall' = WallAfter(current_time)
             /\ keys' = IF v.res = "Ok"
                        THEN [keys EXCEPT ![i].valid_until =
                                 current_time + hist[i].lifetime]
                        ELSE keys
             /\ last' = [Call EXCEPT !.op = "verify", !.idx = i,
                            !.now = current_time, !.res = v.res, !.err = v.err,
                            !.fresh = (last.op = "generate" /\ last.idx = i),
                            !.again = (/\ last.op = "verify"
                                       /\ last.idx = i
                                       /\ last.now = current_time)]
    /\ UNCHANGED <<mode, stored, hist>>

VerifySyncing(i) ==
    /\ Running
    /\ i \in 1..Len(keys)
    /\ \E current_time \in Readings :
       \E v \in {verify(keys[i], current_time)} :
             /\ wall' = WallAfter(current_time)
             /\ stored' = current_time
             /\ last' = [Call EXCEPT !.op = "verify", !.idx = i,
                            !.now = current_time, !.res = v.res, !.err = v.err,
                            !.fresh = (last.op = "generate" /\ last.idx = i),
                            !.again = (/\ last.op = "verify"
                                       /\ last.idx = i
                                       /\ last.now = current_time)]
    /\ UNCHANGED <<mode, keys, hist>>

\* auth::verify(&auth_key) on the i-th key held.
Verify(i) ==
    /\ Running
    /\ i \in 1..Len(keys)
    /\ \E current_time \in Readings :
       \E v \in {verify(keys[i], current_time)} :
             /\ wall' = WallAfter(current_time)
             /\ last' = [Call EXCEPT !.op = "verify", !.idx = i,
                            !.now = current_time, !.res = v.res, !.err = v.err,
                            !.fresh = (last.op = "generate" /\ last.idx = i),
                            !.again = (/\ last.op = "verify"
                                       /\ last.idx = i
                                       /\ last.now = current_time)]
    /\ UNCHANGED <<mode, stored, keys, hist>>

\* ExpiringKey::id(&self): a clone of the key field.
Id(i) ==
    /\ Running
    /\ i \in 1..Len(keys)
    /\ last' = [Call EXCEPT !.op = "id", !.idx = i, !.res = "Ok",
                   !.key = keys[i].key]
    /\ UNCHANGED <<mode, stored, wall, keys, hist>>

\* impl Display for ExpiringKey: the key and the timestamp of valid_until;
\* i64::try_from(secs).expect(..) panics past i64::MAX seconds.
DisplayExpiringKey(i) ==
    /\ Running
    /\ i \in 1..Len(keys)
    /\ last' = IF keys[i].valid_until > I64_MAX
               THEN [Call EXCEPT !.op = "fmt", !.idx = i, !.res = "Panic",
                        !.err = "Overflow of i64 seconds, very future!"]
               ELSE [Call EXCEPT !.op = "fmt", !.idx = i, !.res = "Ok",
                        !.s = to_string(keys[i].key),
                        !.t = keys[i].valid_until]
    /\ UNCHANGED <<mode, stored, wall, keys, hist>>

\* s.parse::<Key>() / Key::from_str(s) of an externally supplied string.
Parse(s) ==
    /\ Running
    /\ \E r \in {from_str(s)} :
           last' = [Call EXCEPT !.op = "from_str", !.s = s, !.err = r.err,
                      !.res = IF r.ok THEN "Ok" ELSE "Err", !.key = r.key]
    /\ UNCHANGED <<mode, stored, wall, keys, hist>>

\* Deserialization of a stored Key (serde, #[derive(Deserialize)]).
DeserializeKey(s) ==
    /\ Running
    /\ last' = [Call EXCEPT !.op = "deserialize", !.s = s, !.res = "Ok",
                   !.key = deserialize(s)]
    /\ UNCHANGED <<mode, stored, wall, keys, hist>>

\* key.to_string() of the Key the last call returned; the call that made
\* the Key and the string it was made from stay on record.
KeyToString ==
    /\ Running
    /\ last.op \in {"from_str", "deserialize", "id"}
    /\ last.res = "Ok"
    /\ last' = [Call EXCEPT !.op = "to_string", !.res = "Ok", !.from = last.op,
                   !.idx = last.idx, !.s = last.s, !.key = last.key,
                   !.out = to_string(last.key)]
    /\ UNCHANGED <<mode, stored, wall, keys, hist>>

\* Key::from_str of the string the last to_string call produced.
Reparse ==
    /\ Running
    /\ last.op = "to_string"
    /\ \E r \in {from_str(last.out)} :
           last' = [last EXCEPT !.op = "reparse", !.err = r.err,
                      !.res = IF r.ok THEN "Ok" ELSE "Err", !.key2 = r.key]
    /\ UNCHANGED <<mode, stored, wall, keys, hist>>

\* Current::local_add(&by), the Clock's advance: in stopped mode the stored
\* instant moves by `by`, or stays on Overflow.
LocalAdd(by) ==
    /\ Running
    /\ mode = "stopped"
    /\ \E r \in {checked_add(stored, by)} :
           /\ stored' = IF r.ok THEN r.t ELSE stored
           /\ hist' = IF r.ok THEN Advanced(by) ELSE hist
           /\ last' = [Call EXCEPT !.op = "local_add", !.d = by, !.now = stored,
                          !.res = IF r.ok THEN "Ok" ELSE "Err", !.err = r.err,
                          !.t = r.t]
    /\ UNCHANGED <<mode, wall, keys>>

\* Current::local_set_to_system_time_now(): stopped mode, the stored instant
\* a snapshot of the wall clock.
LocalSetToSystemTimeNow ==
    /\ Running
    /\ \E t \in wall..MaxWall :
         /\ mode' = "stopped"
         /\ stored' = t
         /\ wall' = t
         /\ last' = [Call EXCEPT !.op = "local_set_to_system_time_now",
                        !.res = "Ok", !.t = t]
    /\ hist' = Reset
    /\ UNCHANGED keys

\* The operations on expiring keys and on the Clock: the component that
\* generates and verifies.
Next ==
    \/ \E lifetime \in 0..MaxDuration, pattern \in Patterns :
            Generate(lifetime, pattern)
    \/ \E i \in 1..MaxKeys : Verify(i)
    \/ \E i \in 1..MaxKeys : Id(i)
    \/ \E i \in 1..MaxKeys : DisplayExpiringKey(i)
    \/ \E by \in 0..MaxDuration : LocalAdd(by)
    \/ LocalSetToSystemTimeNow

Spec == Init /\ [][Next]_vars

\* The operations that make, copy, render or parse a Key.
NextKey ==
    \/ \E lifetime \in 0..MaxDuration, pattern \in Patterns :
            Generate(lifetime, pattern)
    \/ \E i \in 1..MaxKeys : Id(i)
    \/ \E s \in Inputs : Parse(s)
    \/ \E s \in Inputs : DeserializeKey(s)
    \/ KeyToString
    \/ Reparse

SpecKey == Init /\ [][NextKey]_vars

----------------------------------------------------------------------------
(* Properties *)

\* C1: verify returns Ok exactly when the clock reading is at or before
\* valid_until, and Err(KeyExpired) exactly when it is after; at the
\* boundary now = valid_until it returns Ok.
VerifyInclusive ==
    last.op = "verify" =>
        LET k == keys[last.idx]
        IN  /\ last.res = "Ok" <=> last.now <= k.valid_until
            /\ (last.res = "Err" /\ last.err = "KeyExpired")
                    <=> last.now > k.valid_until

\* C1 witness: a verify call at the boundary instant.
VerifiedAtBoundary ==
    /\ last.op = "verify"
    /\ last.now = keys[last.idx].valid_until
    /\ last.res = "Ok"

\* C2: a key generated with lifetime L on a stopped clock at T0 has
\* valid_until = T0 + L; after advances totalling d with no set in between
\* the clock stands at T0 + d and verify returns Ok if d <= L and
\* Err(KeyExpired) if d > L.
AdvanceExpiry ==
    /\ \A i \in 1..Len(keys) :
          hist[i].stopped =>
            /\ keys[i].valid_until = hist[i].t0 + hist[i].lifetime
            /\ stored = hist[i].t0 + hist[i].adv
    /\ (last.op = "verify" /\ hist[last.idx].stopped) =>
          LET h == hist[last.idx]
          IN  /\ h.adv <= h.lifetime => last.res = "Ok"
              /\ h.adv > h.lifetime =>
                    (last.res = "Err" /\ last.err = "KeyExpired")

\* C2 witness: lifetime 2a - 1, two advances of a, and the key is expired
\* (the test's 19 s and twice 10 s, with a = 1).
ExpiredAfterTwoAdvances ==
    /\ last.op = "verify"
    /\ hist[last.idx].stopped
    /\ hist[last.idx].lifetime = 1
    /\ hist[last.idx].adv = 2
    /\ last.res = "Err"

\* C3 as stated: verify as the next call after generate(lifetime > 0)
\* returns Ok, whatever the clock mode.
FreshKeyVerifiesAlways ==
    (last.op = "verify" /\ last.fresh /\ hist[last.idx].lifetime > 0) =>
        last.res = "Ok"

\* C3 amended: verify as the next call after generate(lifetime > 0) returns
\* Ok when the clock reading moved by at most lifetime between the two calls,
\* which is always so in stopped mode.
FreshKeyVerifies ==
    (last.op = "verify" /\ last.fresh /\ hist[last.idx].lifetime > 0) =>
        LET h == hist[last.idx]
        IN  /\ mode = "stopped" => last.now = h.t0
            /\ last.now - h.t0 <= h.lifetime => last.res = "Ok"

\* C3 witness: in system mode the clock moved between generate and verify,
\* and the fresh key verified.
FreshKeyVerifiedLater ==
    /\ last.op = "verify"
    /\ last.fresh
    /\ mode = "system"
    /\ hist[last.idx].lifetime > 0
    /\ last.now > hist[last.idx].t0
    /\ last.res = "Ok"

\* C4 as stated: generate with now + lifetime past the largest instant
\* returns an Overflow error value to its caller.
GenerateOverflowReturnsError ==
    (last.op = "generate" /\ last.now + last.d > MaxInstant) =>
        (last.res = "Err" /\ last.err = "Overflow")

\* C4 amended: generate with now + lifetime past the largest instant panics
\* on the Overflow of Clock.add; it returns nothing, so no key with a wrapped
\* or truncated valid_until, and no error value.
GenerateOverflowPanics ==
    (last.op = "generate" /\ last.now + last.d > MaxInstant) =>
        /\ last.res = "Panic"
        /\ last.err = "Overflow"
        /\ last.key = NoKey
        /\ last.idx = 0

\* C4 witness: a generate call that overflowed.
GenerateOverflowed ==
    /\ last.op = "generate"
    /\ last.now + last.d > MaxInstant
    /\ last.res = "Panic"
    /\ last.err = "Overflow"

\* C5: parsing s succeeds exactly when s.len() = AUTH_KEY_LENGTH and fails
\* with the parse error otherwise, whatever characters s holds.
ParseIffLength ==
    last.op = "from_str" =>
        /\ last.res = "Ok" <=> ByteLen(last.s) = AUTH_KEY_LENGTH
        /\ last.res # "Ok" => (last.res = "Err" /\ last.err = "ParseKeyError")

\* C5 witness: a string of AUTH_KEY_LENGTH bytes, not all alphanumeric, that
\* parsed.
ParsedNonAlphanumeric ==
    /\ last.op = "from_str"
    /\ last.res = "Ok"
    /\ \E i \in 1..Len(last.s) : last.s[i] \notin Alphanumeric

\* C6: a string of AUTH_KEY_LENGTH bytes parses, the Key renders as that
\* string, and parsing the rendering gives the same Key.
RoundTrip ==
    /\ (last.op = "from_str" /\ ByteLen(last.s) = AUTH_KEY_LENGTH) =>
          last.res = "Ok"
    /\ (last.op \in {"to_string", "reparse"} /\ last.from = "from_str") =>
          last.out = last.s
    /\ (last.op = "reparse" /\ last.from = "from_str") =>
          (last.res = "Ok" /\ last.key2 = last.key)

\* C6 witness: the test's key_string parsed, rendered and parsed again.
KeyStringRoundTripped ==
    /\ last.op = "reparse"
    /\ last.from = "from_str"
    /\ last.s = key_string
    /\ last.out = key_string

\* The Key values of a state.
AllKeys ==
    {keys[i].key : i \in 1..Len(keys)} \cup ({last.key, last.key2} \ {NoKey})

\* C7: every Key that exists, however it was made, holds a string of
\* length AUTH_KEY_LENGTH, and the parse inside generate never fails.
KeyLengthExact ==
    /\ \A k \in AllKeys : ByteLen(k[1]) = AUTH_KEY_LENGTH
    /\ last.op = "generate" => last.err # "ParseKeyError"

\* C8: the keys held only grow; no step changes the key or valid_until of a
\* key already held, and a new key is generate's, with valid_until the
\* clock reading plus the lifetime.
ValidUntilFixed ==
    [][/\ Len(keys') >= Len(keys)
       /\ \A i \in 1..Len(keys) : keys'[i] = keys[i]
       /\ Len(keys') > Len(keys) =>
            /\ Len(keys') = Len(keys) + 1
            /\ last'.op = "generate"
            /\ keys'[Len(keys')].valid_until = last'.now + last'.d]_vars

\* C8 witness: a key is held from before a set; the clock has since been set
\* and moved past its valid_until, and another key has just been generated.
KeysHeldAcrossOperations ==
    /\ Len(keys) >= 1
    /\ ~hist[1].stopped
    /\ mode = "stopped"
    /\ stored > keys[1].valid_until
    /\ last.op = "generate"
    /\ last.res = "Ok"
    /\ last.idx # 1

\* C9: a verify call leaves the Clock's mode and stored instant and the keys
\* as they were, and repeated on the same key at the same reading it returns
\* the same result.
VerifyPure ==
    [][last'.op = "verify" =>
        /\ mode' = mode
        /\ stored' = stored
        /\ keys' = keys
        /\ (last.op = "verify" /\ last.idx = last'.idx /\ last.now = last'.now)
              => (last'.res = last.res /\ last'.err = last.err)]_vars

\* C9 witness: a key verified a second time at the same clock reading.
VerifiedTwice ==
    /\ last.op = "verify"
    /\ last.again

\* C10: in stopped mode, a step other than a set never moves the stored
\* instant back: local_add moves it by its argument and returns the sum, or
\* fails with Overflow and leaves it; generate (Clock.add) and verify leave
\* it; and a key verify reports expired stays expired.
StoppedMonotone ==
    [][(mode = "stopped" /\ last'.op # "local_set_to_system_time_now") =>
        /\ stored' >= stored
        /\ last'.op = "local_add" =>
              IF stored + last'.d <= MaxInstant
              THEN /\ stored' = stored + last'.d
                   /\ last'.res = "Ok"
                   /\ last'.t = stored'
              ELSE /\ stored' = stored
                   /\ last'.res = "Err"
                   /\ last'.err = "Overflow"
        /\ last'.op = "generate" =>
              /\ stored' = stored
              /\ last'.res = "Ok" => last'.t = stored + last'.d
        /\ last'.op = "verify" => stored' = stored
        /\ \A i \in 1..Len(keys) :
              verify(keys[i], stored).res = "Err" =>
                  verify(keys'[i], stored').res = "Err"]_vars

\* C10 witness: on a stopped clock a local_add overflowed while a key was
\* already expired.
OverflowedWhileExpired ==
    /\ mode = "stopped"
    /\ last.op = "local_add"
    /\ last.res = "Err"
    /\ \E i \in 1..Len(keys) :
          hist[i].stopped /\ verify(keys[i], stored).res = "Err"

====
